---- MODULE Spec2Model ----
(***************************************************************************)
(* Model of fenics/darcy-two-phase.py: the time loop that drives one       *)
(* Newton solve per step (with the MyNonlinearProblem callbacks), the      *)
(* post-processing writes, and the coefficient / upwind / boundary         *)
(* functions of the weak form.                                             *)
(*                                                                         *)
(* Numbers.  The loop clock t, dt and T are IEEE-754 doubles.  A double is *)
(* modelled exactly as the pair <<hi, lo>> standing for                    *)
(* (hi * 2^30 + lo) * 2^-59, with 0 <= lo < 2^30: 2^-59 is the unit in the *)
(* last place of 0.01, so every value the clock takes is a whole number of *)
(* units, and a sum is rounded to 53 significant bits, ties to even.       *)
(* Coefficient functions are computed over exact rationals <<num, den>>.   *)
(***************************************************************************)
EXTENDS Integers, Sequences, FiniteSets, TLC

VARIABLES
    pc,             \* position of the script: "while", "F", "check", "update", "write", "done", "failed"
    t,              \* the loop clock (a double)
    U,              \* Function "field": the current iterate
    U0,             \* Function "prefield": the previous-step state
    iter,           \* Newton iterations done in the current solve
    asm,            \* history: the previous-step quantities the last residual assembly read
    reset_sparsity, \* MyNonlinearProblem.reset_sparsity
    written,        \* number of writes to p_file, s_file, u_file and the sample file
    sinkT,          \* the time handed to the last XDMF writes
    closed,         \* data_file_time.close() was called
    steps,          \* history: loop bodies started
    solveCalls,     \* history: solver.solve invocations
    solvesOk,       \* history: solver.solve calls that returned
    raised,         \* history: solver.solve raised
    Uconv,          \* history: U as left by the last solve that returned (zero before any)
    assigns,        \* history: U0.assign(U) calls
    out,            \* the last evaluation of a pure function of the forms
    prev            \* the evaluation of SaturationBC.eval before the last one

varsLoop == <<pc, t, U, U0, iter, asm, reset_sparsity, written, sinkT, closed,
              steps, solveCalls, solvesOk, raised, Uconv, assigns>>
varsFn == <<out, prev>>
vars == <<pc, t, U, U0, iter, asm, reset_sparsity, written, sinkT, closed,
          steps, solveCalls, solvesOk, raised, Uconv, assigns, out, prev>>

(***************************************************************************)
(* Bounds of the model.                                                    *)
(***************************************************************************)
\* the values of one block of the mixed DOF vector range over 0..MaxVal
MaxVal == 1

(***************************************************************************)
(* IEEE-754 double arithmetic on <<hi, lo>>.                               *)
(***************************************************************************)
Base == 2^30

DNorm(hi, lo) == <<hi + (lo \div Base), lo % Base>>

\* the exact (unrounded) sum of two doubles
DAddExact(x, y) == DNorm(x[1] + y[1], x[2] + y[2])

\* exponent of the unit in the last place, in units of 2^-59: a value with
\* hi in [2^(22+k), 2^(23+k)) has 53+k bits, so its ulp is 2^k
UlpExp(hi) ==
    IF hi < 2^22 THEN 0 ELSE CHOOSE k \in 0..8 : hi \div 2^(22 + k) = 1

\* round to 53 significant bits, to nearest, ties to even
RoundD(v) ==
    LET k    == UlpExp(v[1])
        ulp  == 2^k
        rem  == v[2] % ulp
        down == v[2] - rem
        half == ulp \div 2
        odd  == (down \div ulp) % 2 = 1
        up   == k > 0 /\ (rem > half \/ (rem = half /\ odd))
    IN  DNorm(v[1], down + (IF up THEN ulp ELSE 0))

\* x + y in double arithmetic
DAdd(x, y) == RoundD(DAddExact(x, y))

\* x < y
DLess(x, y) == x[1] < y[1] \/ (x[1] = y[1] /\ x[2] < y[2])

RECURSIVE DMulExact(_, _)
DMulExact(n, x) ==
    IF n = 0 THEN <<0, 0>>
    ELSE LET h == DMulExact(n \div 2, x)
             d == DAddExact(h, h)
         IN  IF n % 2 = 1 THEN DAddExact(d, x) ELSE d

\* n * x in double arithmetic, n a small integer: the exact product (by binary
\* doubling), rounded once
DMulInt(n, x) == RoundD(DMulExact(n, x))

\* long division of hi * 2^30 + lo by d < 2^15: <<quotient hi, quotient lo, remainder>>
DivSmall(v, d) ==
    LET r0 == v[1] % d
        c1 == r0 * 2^15 + (v[2] \div 2^15)
        c2 == (c1 % d) * 2^15 + (v[2] % 2^15)
    IN  <<v[1] \div d, (c1 \div d) * 2^15 + (c2 \div d), c2 % d>>

\* the double nearest to n/d, for n/d in [2^-7, 2^-6) (one unit is its ulp)
DoubleOfRatio(n, d) ==
    LET q  == DivSmall(<<n * 2^29, 0>>, d)
        up == 2 * q[3] > d \/ (2 * q[3] = d /\ q[2] % 2 = 1)
    IN  DNorm(q[1], q[2] + (IF up THEN 1 ELSE 0))

(***************************************************************************)
(* Program constants.                                                      *)
(***************************************************************************)
\* dt = Constant(0.01); float(dt) is the double nearest to 1/100
dt == DoubleOfRatio(1, 100)

\* the factor of T = 250*float(dt)
NSteps == 250

\* T = 250*float(dt)
T == DMulInt(NSteps, dt)

\* solver.parameters["maximum_iterations"] = 10
maximum_iterations == 10

(***************************************************************************)
(* The mixed DOF vector, each block abstracted to one value: u the velocity *)
(* (BDM) block, s the saturation (DG) block.  The pressure block is copied *)
(* and updated with the other two and read by nothing but p_file.write; it *)
(* is not kept apart.                                                      *)
(***************************************************************************)
Vals == 0..MaxVal
DofVec == [u : Vals, s : Vals]

\* Function(mixed_space): a new Function is zero
ZeroVec == [u |-> 0, s |-> 0]

NoCall == [op |-> "none"]

(***************************************************************************)
(* Initial state: t = 0.0, U and U0 zero, nothing written.                 *)
(***************************************************************************)
Files == {"p_file", "s_file", "u_file", "data_file_time"}

Init ==
    /\ pc = "while"
    /\ t = <<0, 0>>
    /\ U = ZeroVec
    /\ U0 = ZeroVec
    /\ iter = 0
    /\ asm = [un |-> 0, s0 |-> 0]
    /\ reset_sparsity = TRUE
    /\ written = [f \in Files |-> 0]
    /\ sinkT = <<0, 0>>
    /\ closed = FALSE
    /\ steps = 0
    /\ solveCalls = 0
    /\ solvesOk = 0
    /\ raised = FALSE
    /\ Uconv = ZeroVec
    /\ assigns = 0
    /\ out = NoCall
    /\ prev = NoCall

(***************************************************************************)
(* The time loop.                                                          *)
(***************************************************************************)
\* while t < T:  t += float(dt);  U0.assign(U);  solver.solve(problem, U.vector()) is entered
BeginStep ==
    /\ pc = "while"
    /\ DLess(t, T)
    /\ t' = DAdd(t, dt)
    /\ U0' = U
    /\ assigns' = assigns + 1
    /\ steps' = steps + 1
    /\ solveCalls' = solveCalls + 1
    /\ iter' = 0
    /\ pc' = "F"
    /\ UNCHANGED <<U, asm, reset_sparsity, written, sinkT, closed, solvesOk, raised, Uconv>>
    /\ UNCHANGED varsFn

\* the loop test fails: data_file_time.close() and the script ends
EndLoop ==
    /\ pc = "while"
    /\ ~DLess(t, T)
    /\ closed' = TRUE
    /\ pc' = "done"
    /\ UNCHANGED <<t, U, U0, iter, asm, reset_sparsity, written, sinkT,
                   steps, solveCalls, solvesOk, raised, Uconv, assigns>>
    /\ UNCHANGED varsFn

\* faulty variant of u0n: the normal velocity taken from the current iterate u
u0n_current == U.u

\* inner(u0, n): the normal velocity of un and un_h is taken from u0 = split(U0)[0]
u0n == U0.u

\* MyNonlinearProblem.F: assemble(self.L, tensor=b); besides the iterate U, L
\* reads s0 of U0 (through s_mid) and the normal velocity of the upwind terms
ProblemF ==
    /\ pc = "F"
    /\ asm' = [un |-> u0n, s0 |-> U0.s]
    /\ pc' = "check"
    /\ UNCHANGED <<t, U, U0, iter, reset_sparsity, written, sinkT, closed,
                   steps, solveCalls, solvesOk, raised, Uconv, assigns>>
    /\ UNCHANGED varsFn

\* MyNonlinearProblem.J: assemble(self.a, tensor=A); self.reset_sparsity = False.
\* The solver asks for the Jacobian when the residual has not converged and
\* fewer than maximum_iterations iterations were done.
ProblemJ ==
    /\ pc = "check"
    /\ iter < maximum_iterations
    /\ reset_sparsity' = FALSE
    /\ pc' = "update"
    /\ UNCHANGED <<t, U, U0, iter, asm, written, sinkT, closed,
                   steps, solveCalls, solvesOk, raised, Uconv, assigns>>
    /\ UNCHANGED varsFn

\* faulty variant of NewtonUpdate: U0 is the same vector as U (U0 = U instead of
\* U0.assign(U)), so the update shows in U0 too
NewtonUpdate_aliased ==
    /\ pc = "update"
    /\ \E x \in DofVec : U' = x /\ U0' = x
    /\ iter' = iter + 1
    /\ pc' = "F"
    /\ UNCHANGED <<t, asm, reset_sparsity, written, sinkT, closed,
                   steps, solveCalls, solvesOk, raised, Uconv, assigns>>
    /\ UNCHANGED varsFn

\* the Newton update written into U.vector(): the result of the linear solve,
\* whatever it is
NewtonUpdate ==
    /\ pc = "update"
    /\ \E x \in DofVec : U' = x
    /\ iter' = iter + 1
    /\ pc' = "F"
    /\ UNCHANGED <<t, U0, asm, reset_sparsity, written, sinkT, closed,
                   steps, solveCalls, solvesOk, raised, Uconv, assigns>>
    /\ UNCHANGED varsFn

\* solver.solve returns: the script goes on to the writes.  When the solver
\* finds the residual converged is not decided by the script: it may be after
\* any residual assembly.
Converged ==
    /\ pc = "check"
    /\ solvesOk' = solvesOk + 1
    /\ Uconv' = U
    /\ pc' = "write"
    /\ UNCHANGED <<t, U, U0, iter, asm, reset_sparsity, written, sinkT, closed,
                   steps, solveCalls, raised, assigns>>
    /\ UNCHANGED varsFn

\* faulty variant of Raise: the exception is caught and the loop goes on
Raise_retry ==
    /\ raised' = TRUE
    /\ pc' = "while"
    /\ UNCHANGED <<t, U, U0, iter, asm, reset_sparsity, written, sinkT, closed,
                   steps, solveCalls, solvesOk, Uconv, assigns>>
    /\ UNCHANGED varsFn

\* faulty variant of Raise: the exception is caught and the step is written
Raise_swallow ==
    /\ raised' = TRUE
    /\ pc' = "write"
    /\ UNCHANGED <<t, U, U0, iter, asm, reset_sparsity, written, sinkT, closed,
                   steps, solveCalls, solvesOk, Uconv, assigns>>
    /\ UNCHANGED varsFn

\* an exception out of solver.solve: the loop has no try/except, the script ends
\* with a traceback (data_file_time.close() is not reached)
Raise ==
    /\ raised' = TRUE
    /\ pc' = "failed"
    /\ UNCHANGED <<t, U, U0, iter, asm, reset_sparsity, written, sinkT, closed,
                   steps, solveCalls, solvesOk, Uconv, assigns>>
    /\ UNCHANGED varsFn

\* the solver gives up: no convergence after maximum_iterations iterations
NewtonDivergence ==
    /\ pc = "check"
    /\ iter >= maximum_iterations
    /\ Raise

\* the linear solve of an iteration fails
LinearSolveFailure ==
    /\ pc = "update"
    /\ Raise

\* u, p, s = U.split(); project; p_file.write(p, t); s_file.write(s, t);
\* u_file.write(u, t); data_file_time.write(...)
WriteState ==
    /\ pc = "write"
    /\ written' = [f \in Files |-> written[f] + 1]
    /\ sinkT' = t
    /\ pc' = "while"
    /\ UNCHANGED <<t, U, U0, iter, asm, reset_sparsity, closed,
                   steps, solveCalls, solvesOk, raised, Uconv, assigns>>
    /\ UNCHANGED varsFn

NextLoop ==
    \/ BeginStep
    \/ EndLoop
    \/ ProblemF
    \/ ProblemJ
    \/ NewtonUpdate
    \/ Converged
    \/ NewtonDivergence
    \/ LinearSolveFailure
    \/ WriteState

Next == NextLoop

Spec == Init /\ [][Next]_vars

(***************************************************************************)
(* Exact rational arithmetic on <<num, den>>, den > 0; den = 0 stands for  *)
(* an undefined value (a division by zero).                                *)
(***************************************************************************)
RECURSIVE GCD(_, _)
GCD(a, c) == IF c = 0 THEN a ELSE GCD(c, a % c)
Abs(n) == IF n < 0 THEN -n ELSE n

\* the fraction n/d in lowest terms
Rat(n, d) ==
    IF d = 0 THEN <<0, 0>>
    ELSE LET g == GCD(Abs(n), Abs(d)) IN
         IF d > 0 THEN <<n \div g, d \div g>> ELSE <<(-n) \div g, (-d) \div g>>
RDefined(x) == x[2] > 0
RAdd(x, y) == Rat(x[1] * y[2] + y[1] * x[2], x[2] * y[2])
RSub(x, y) == Rat(x[1] * y[2] - y[1] * x[2], x[2] * y[2])
RMul(x, y) == Rat(x[1] * y[1], x[2] * y[2])
RDiv(x, y) == Rat(x[1] * y[2], x[2] * y[1])
RSq(x) == RMul(x, x)
REq(x, y) == x[1] * y[2] = y[1] * x[2]
RLe(x, y) == x[1] * y[2] <= y[1] * x[2]
RLt(x, y) == x[1] * y[2] < y[1] * x[2]
RZero == Rat(0, 1)
ROne == Rat(1, 1)

\* the integer square root, and sqrt of a rational whose terms are squares
ISqrt(n) == CHOOSE r \in 0..n : r * r <= n /\ (r + 1) * (r + 1) > n
RSqrt(x) == Rat(ISqrt(x[1]), ISqrt(x[2]))

(***************************************************************************)
(* Bounds of the inputs of the pure functions.                             *)
(***************************************************************************)
\* saturations are the grid points i/SDen, -SDen <= i <= 2*SDen
SDen == 4
\* mu_rel ranges over the ratios a/c with a, c in 1..MaxMu (0.2 = 1/5 among them)
MaxMu == 5
\* normal velocities are the halves k/2, -MaxX <= k <= MaxX
MaxX == 3
\* the output buffer handed to SaturationBC.eval holds a value in 0..MaxBuf
MaxBuf == 2
\* positions are x0 = i/PosN, 0 <= i <= PosN
PosN == 2

SGrid == {Rat(i, SDen) : i \in (-SDen)..(2 * SDen)}
MuSet == {Rat(a, c) : a \in 1..MaxMu, c \in 1..MaxMu}
XSet == {Rat(k, 2) : k \in (-MaxX)..MaxX}
BufVals == {Rat(v, 1) : v \in 0..MaxBuf}
Positions == 0..PosN
TestVals == {Rat(-1, 1), RZero, ROne}

(***************************************************************************)
(* Coefficient functions.                                                  *)
(***************************************************************************)
\* mu_rel = 0.2
mu_rel_run == Rat(1, 5)

\* faulty variant of lmbdainv: (1.0 - s) not squared
lmbdainv_noSquare(mu_rel, s) ==
    RDiv(ROne, RAdd(RMul(RDiv(ROne, mu_rel), RSq(s)), RSub(ROne, s)))

\* def lmbdainv(s): return 1.0/((1.0/mu_rel)*s**2 + (1.0 - s)**2)
lmbdainv(mu_rel, s) ==
    RDiv(ROne, RAdd(RMul(RDiv(ROne, mu_rel), RSq(s)), RSq(RSub(ROne, s))))

\* def F(s): return s**2/(s**2 + mu_rel*(1.0 - s)**2)
F(mu_rel, s) ==
    RDiv(RSq(s), RAdd(RSq(s), RMul(mu_rel, RSq(RSub(ROne, s)))))

(***************************************************************************)
(* Upwind normal velocities and the facet terms of L3.                     *)
(***************************************************************************)
\* the time step as a real number: dt = Constant(0.01)
dtR == Rat(1, 100)

\* un = 0.5*(inner(u0, n) + sqrt(inner(u0, n)*inner(u0, n)))
un(x) == RMul(Rat(1, 2), RAdd(x, RSqrt(RMul(x, x))))

\* faulty variant of un_h: the sign of the square root as in un
un_h_plus(x) == RMul(Rat(1, 2), RAdd(x, RSqrt(RMul(x, x))))

\* un_h = 0.5*(inner(u0, n) - sqrt(inner(u0, n)*inner(u0, n)))
un_h(x) == RMul(Rat(1, 2), RSub(x, RSqrt(RMul(x, x))))

\* the normal velocity seen from the '-' side of an interior facet: n('-') = -n('+')
\* and the normal component of the BDM field u0 is single-valued
Minus(x) == Rat(-x[1], x[2])

\* dt('+')*inner(jump(r), un('+')*F(s_mid)('+') - un('-')*F(s_mid)('-'))*dS, per unit of facet measure
InteriorTerm(x, jr, Fp, Fm) ==
    RMul(dtR, RMul(jr, RSub(RMul(un(x), Fp), RMul(un(Minus(x)), Fm))))

\* dt*r*un_h*sbar*ds, per unit of facet measure
InflowTerm(x, r, sbar) == RMul(dtR, RMul(r, RMul(un_h(x), sbar)))

\* dt*r*F(s_mid)*un*ds, per unit of facet measure
OutflowTerm(x, r, Fs) == RMul(dtR, RMul(r, RMul(Fs, un(x))))

(***************************************************************************)
(* Boundary conditions.                                                    *)
(***************************************************************************)
\* x[0] < DOLFIN_EPS for the position x0 = i/PosN: DOLFIN_EPS (about 3e-16) lies
\* strictly between 0 and the first grid point 1/PosN
LessThanEps(i) == i <= 0

\* SaturationBC.eval(values, x): values[0] = 1.0 if x[0] < DOLFIN_EPS, and
\* values is left as it was otherwise.  The result is values[0] after the call.
SaturationBC_eval(values, i) == IF LessThanEps(i) THEN ROne ELSE values

(***************************************************************************)
(* Evaluations of the pure functions: the inputs are drawn in the initial  *)
(* state, each action applies one function to them.                        *)
(***************************************************************************)
UnitGrid == {s \in SGrid : RLe(RZero, s) /\ RLe(s, ROne)}

Inputs ==
    [op : {"call_lmbdainv"}, mu : MuSet, s : SGrid]
    \cup {c \in [op : {"call_F"}, mu : MuSet, s : SGrid, s2 : SGrid] : RLe(c.s, c.s2)}
    \cup [op : {"call_interior"}, x : XSet, jr : TestVals, sp : UnitGrid, sm : UnitGrid]
    \cup [op : {"call_boundary"}, x : XSet, r : TestVals, sp : UnitGrid,
          pos : Positions, buf : BufVals]
    \cup [op : {"call_sbar"}, pos : Positions, buf : BufVals]

InitFn ==
    /\ pc = "while"
    /\ t = <<0, 0>>
    /\ U = ZeroVec
    /\ U0 = ZeroVec
    /\ iter = 0
    /\ asm = [un |-> 0, s0 |-> 0]
    /\ reset_sparsity = TRUE
    /\ written = [f \in Files |-> 0]
    /\ sinkT = <<0, 0>>
    /\ closed = FALSE
    /\ steps = 0
    /\ solveCalls = 0
    /\ solvesOk = 0
    /\ raised = FALSE
    /\ Uconv = ZeroVec
    /\ assigns = 0
    /\ out \in Inputs
    /\ prev = NoCall

Eval_lmbdainv ==
    /\ out.op = "call_lmbdainv"
    /\ out' = [op |-> "lmbdainv", mu |-> out.mu, s |-> out.s, res |-> lmbdainv(out.mu, out.s)]
    /\ UNCHANGED prev
    /\ UNCHANGED varsLoop

\* F at two saturations s <= s2
Eval_F ==
    /\ out.op = "call_F"
    /\ out' = [op |-> "F", mu |-> out.mu, s |-> out.s, s2 |-> out.s2,
               res |-> F(out.mu, out.s), res2 |-> F(out.mu, out.s2)]
    /\ UNCHANGED prev
    /\ UNCHANGED varsLoop

\* one interior facet with previous-step normal velocity x, the test function's
\* jump jr and the saturations sp, sm on its two sides
Eval_InteriorFacet ==
    /\ out.op = "call_interior"
    /\ out' = [op |-> "interior", x |-> out.x, jr |-> out.jr,
               un |-> un(out.x), un_h |-> un_h(out.x), unm |-> un(Minus(out.x)),
               term |-> InteriorTerm(out.x, out.jr,
                                     F(mu_rel_run, out.sp), F(mu_rel_run, out.sm))]
    /\ UNCHANGED prev
    /\ UNCHANGED varsLoop

\* one boundary facet at position pos with previous-step normal velocity x: sbar
\* is evaluated into a buffer holding buf
Eval_BoundaryFacet ==
    /\ out.op = "call_boundary"
    /\ out' = [op |-> "boundary", x |-> out.x, r |-> out.r,
               un |-> un(out.x), un_h |-> un_h(out.x),
               sbar |-> SaturationBC_eval(out.buf, out.pos),
               inflow |-> InflowTerm(out.x, out.r, SaturationBC_eval(out.buf, out.pos)),
               outflow |-> OutflowTerm(out.x, out.r, F(mu_rel_run, out.sp))]
    /\ UNCHANGED prev
    /\ UNCHANGED varsLoop

\* sbar evaluated at position pos into a buffer holding buf
Eval_SaturationBC ==
    /\ out.op = "call_sbar"
    /\ out' = [op |-> "sbar", pos |-> out.pos, buf |-> out.buf,
               res |-> SaturationBC_eval(out.buf, out.pos)]
    /\ UNCHANGED prev
    /\ UNCHANGED varsLoop

\* sbar is evaluated again, at any position and into any buffer
Call_SaturationBC ==
    /\ out.op = "sbar"
    /\ prev' = out
    /\ \E i \in Positions, buf \in BufVals : out' = [op |-> "call_sbar", pos |-> i, buf |-> buf]
    /\ UNCHANGED varsLoop

NextFn ==
    \/ Eval_lmbdainv
    \/ Eval_F
    \/ Eval_InteriorFacet
    \/ Eval_BoundaryFacet
    \/ Eval_SaturationBC
    \/ Call_SaturationBC

SpecFn == InitFn /\ [][NextFn]_vars

(***************************************************************************)
(* C1: the loop started at t = 0 with T = 250*dt performs exactly 250      *)
(* steps: when the loop has ended, 250 loop bodies were started (one solve *)
(* each) and the clock is not below T.                                     *)
(***************************************************************************)
C1_ExactlyNSteps ==
    pc = "done" => (steps = NSteps /\ solveCalls = NSteps /\ ~DLess(t, T))

(***************************************************************************)
(* C2: U0 is overwritten once per step, at its start and before the solve, *)
(* with the U of the last solve that returned (zero in the first step),    *)
(* and keeps that value through the residual assemblies, the Jacobian      *)
(* assemblies and the updates of U of the step's Newton solve.             *)
(***************************************************************************)
C2_U0OnlyAtStepStart ==
    /\ assigns = steps
    /\ assigns = solveCalls
    /\ pc \in {"F", "check", "update", "failed"} => U0 = Uconv
    /\ steps = 1 /\ pc \in {"F", "check", "update", "failed"} => U0 = ZeroVec

\* in the second or a later step, after two Newton updates, the iterate has
\* moved away from a non-zero previous state
C2_Witness ==
    /\ pc = "check"
    /\ steps >= 2
    /\ iter >= 2
    /\ U0 # ZeroVec
    /\ U # U0

(***************************************************************************)
(* C3: once solver.solve has raised, the script is in its failed end state *)
(* for good: no step is started, no solve is invoked, U0 is not assigned   *)
(* (it still holds the last converged state, not the failed iterate).      *)
(***************************************************************************)
C3_FailureIsFatal ==
    /\ [](raised => (pc = "failed" /\ U0 = Uconv))
    /\ [][raised => /\ pc' = "failed"
                    /\ steps' = steps
                    /\ solveCalls' = solveCalls
                    /\ assigns' = assigns
                    /\ U0' = U0]_vars

\* a solve fails in the second or a later step, leaving an iterate that differs
\* from the previous state
C3_Witness ==
    /\ pc = "failed"
    /\ raised
    /\ steps >= 2
    /\ iter >= 1
    /\ U # U0

(***************************************************************************)
(* C4: each of the four outputs is written once per solve that returned,   *)
(* after that solve and with that step's time, and not for a step whose    *)
(* solve raised.                                                           *)
(***************************************************************************)
C4_SinkOncePerConvergedStep ==
    /\ \A f \in Files : written[f] = (IF pc = "write" THEN solvesOk - 1 ELSE solvesOk)
    /\ pc \in {"while", "done"} => solvesOk = steps
    /\ pc \in {"F", "check", "update", "failed"} => solvesOk = steps - 1
    /\ pc = "write" => ~raised
    /\ (pc \in {"while", "done"} /\ steps > 0) => sinkT = t

\* one step was written, the solve of the next one failed
C4_Witness ==
    /\ pc = "failed"
    /\ steps = 2
    /\ \A f \in Files : written[f] = 1
    /\ sinkT = dt

(***************************************************************************)
(* C10: every residual assembly of a step reads, as the normal velocity of *)
(* the upwind terms, the velocity block U had when the step began (the     *)
(* snapshot in U0), whatever the Newton updates did to the velocity block  *)
(* of U since.                                                             *)
(***************************************************************************)
C10_LaggedNormalVelocity ==
    (pc \in {"check", "update"} \/ (pc = "F" /\ iter > 0)) => asm.un = Uconv.u

\* a residual assembly after two updates, the velocity block of U now differing
\* from the non-zero snapshot
C10_Witness ==
    /\ pc = "check"
    /\ iter >= 2
    /\ steps >= 2
    /\ U0.u # 0
    /\ U.u # U0.u
    /\ asm.un = U0.u

(***************************************************************************)
(* C7: un = max(x, 0) and un_h = min(x, 0) for the previous-step normal    *)
(* velocity x, so un >= 0, un_h <= 0 and un + un_h = x; a facet with x = 0 *)
(* contributes nothing to the interior-jump term and to the boundary       *)
(* inflow term, and the inflow term is non-zero only where x < 0.          *)
(***************************************************************************)
C7_UpwindSplit ==
    /\ out.op \in {"interior", "boundary"} =>
          /\ REq(out.un, IF RLt(RZero, out.x) THEN out.x ELSE RZero)
          /\ REq(out.un_h, IF RLt(out.x, RZero) THEN out.x ELSE RZero)
          /\ RLe(RZero, out.un)
          /\ RLe(out.un_h, RZero)
          /\ REq(RAdd(out.un, out.un_h), out.x)
          /\ REq(out.x, RZero) => (REq(out.un, RZero) /\ REq(out.un_h, RZero))
    /\ out.op = "interior" =>
          (REq(out.x, RZero) => (REq(out.unm, RZero) /\ REq(out.term, RZero)))
    /\ out.op = "boundary" =>
          /\ REq(out.x, RZero) => REq(out.inflow, RZero)
          /\ ~REq(out.inflow, RZero) => RLt(out.x, RZero)

\* a boundary facet with zero normal velocity where the test function and the
\* prescribed saturation are not zero
C7_Witness ==
    /\ out.op = "boundary"
    /\ REq(out.x, RZero)
    /\ ~REq(out.r, RZero)
    /\ ~REq(out.sbar, RZero)
    /\ REq(out.inflow, RZero)

(***************************************************************************)
(* C8: for mu_rel > 0, lmbdainv(s) is defined and positive for every s;    *)
(* F(s) is defined and in [0, 1] for s in [0, 1], F(0) = 0, F(1) = 1, and  *)
(* F(s) <= F(s2) for 0 <= s <= s2 <= 1.                                    *)
(***************************************************************************)
C8_CoefficientRanges ==
    /\ out.op = "lmbdainv" => (RDefined(out.res) /\ RLt(RZero, out.res))
    /\ (out.op = "F" /\ RLe(RZero, out.s) /\ RLe(out.s2, ROne)) =>
          /\ RDefined(out.res)
          /\ RDefined(out.res2)
          /\ RLe(RZero, out.res)
          /\ RLe(out.res, ROne)
          /\ RLe(out.res, out.res2)
          /\ REq(out.s, RZero) => REq(out.res, RZero)
          /\ REq(out.s, ROne) => REq(out.res, ROne)

\* lmbdainv at a saturation above 1, for the run's mu_rel
C8_Witness ==
    /\ out.op = "lmbdainv"
    /\ out.mu = mu_rel_run
    /\ RLt(ROne, out.s)
    /\ RLt(RZero, out.res)

(***************************************************************************)
(* C9: SaturationBC is a function of the position alone: two evaluations   *)
(* at the same position give the same value, whatever the output buffer    *)
(* held before each.                                                       *)
(***************************************************************************)
C9_SbarFunctionOfPosition ==
    (out.op = "sbar" /\ prev.op = "sbar" /\ out.pos = prev.pos) => REq(out.res, prev.res)

====
